---- MODULE Spec2Model ----
(***************************************************************************)
(* Model of the yt_chunks transcript tools:                                *)
(*   - chunk_smart_duration   (smart_chunk_downloader.py), SpecChunker     *)
(*   - the download main loop (smart_chunk_downloader.py), SpecDownload    *)
(*   - the batch merge loop   (merge_transcript_batches.py), SpecMerge     *)
(* Times are integers (seconds).  With integer segment durations the test  *)
(* current_duration >= target_duration has the same outcome for a real     *)
(* target t and for the integer ceiling of t, so integer targets in        *)
(* [min_duration, max_duration] cover every draw of random.uniform.        *)
(***************************************************************************)
EXTENDS Integers, Sequences, FiniteSets, TLC

\* ------------------------------------------------------------------ bounds
MaxSegs == 3
MaxDur == 2

NumVideos == 4
MaxStart == 1
MaxBatch == 3
MaxSaveEvery == 2
NumBatches == 2
NumIds == 2
MaxChunks == 1
MaxRawIds == 3
MaxRawLen == 4
MaxPerBatch == 3

\* VIDEOS_PER_BATCH as the batch splitter's CONFIG block sets it
VIDEOS_PER_BATCH_DEFAULT == 50

\* MIN_CHUNK_DURATION / MAX_CHUNK_DURATION of the downloader's CONFIG block
MIN_CHUNK_DURATION == 20
MAX_CHUNK_DURATION == 30

VARIABLES
    \* ---- chunk_smart_duration
    segments,          \* the argument: sequence of [start, duration, text]
    min_duration,      \* the argument min_duration
    max_duration,      \* the argument max_duration
    chunks,            \* the list being returned
    chunk_id,
    i,                 \* Python index into segments (0-based)
    target_duration,
    chunk_start,
    chunk_segments,
    chunk_texts,
    current_duration,
    cpc                \* position in chunk_smart_duration

chunkVars == <<segments, min_duration, max_duration, chunks, chunk_id, i,
               target_duration, chunk_start, chunk_segments, chunk_texts,
               current_duration, cpc>>

\* The CONFIG values are edited per run environment: the model ranges over
\* small values of START_INDEX, BATCH_SIZE and SAVE_EVERY and both values of
\* RESUME, fixed for a behaviour, and over every content of the progress file.
VARIABLES
    \* ---- the download script
    START_INDEX,       \* CONFIG
    BATCH_SIZE,        \* CONFIG
    SAVE_EVERY,        \* CONFIG
    RESUME,            \* CONFIG
    progress_file,     \* download_progress.json: whether it exists, its 'completed' ids
    video_dirs,        \* OUTPUT_DIR/<video_id>: "none", "partial" or "complete"
    downloaded,
    batch_videos,
    idx,               \* the loop's i (0-based): next video of batch_videos
    processed,
    rate_limited,
    results,
    dpc,               \* position in the script
    loaded,            \* history: the completed set as loaded at the run's start
    fetches,           \* history: the video ids passed to api.fetch in this run
    saves              \* history: the writes of progress_file in this run

dlVars == <<START_INDEX, BATCH_SIZE, SAVE_EVERY, RESUME, progress_file, video_dirs,
            downloaded, batch_videos, idx, processed, rate_limited, results, dpc,
            loaded, fetches, saves>>

VARIABLES
    \* ---- the merge script
    batch_dirs,        \* the sorted batch directories: the video ids each holds
    output_dir,        \* bangla_transcripts_merged/<video_id>: what it holds
    bi,                \* the batch directory the outer loop is at (1-based)
    video_dirs_left,   \* the videos of that batch the inner loop has not reached yet
    all_videos,
    total_chunks,
    errors,
    stats,
    mpc,               \* position in the script
    handled            \* history: what the loop did with each video directory

mgVars == <<batch_dirs, output_dir, bi, video_dirs_left, all_videos, total_chunks,
            errors, stats, mpc, handled>>

VARIABLES
    \* ---- the batch splitter
    id_column,         \* the video_id column of the CSV, rows with no id dropped
    VIDEOS_PER_BATCH,  \* CONFIG
    video_ids,
    num_batches,
    bidx,              \* the loop's i
    batch_files,       \* bangla_batch_<i>.csv, in the order written
    batch_info,
    spc                \* position in the script

spVars == <<id_column, VIDEOS_PER_BATCH, video_ids, num_batches, bidx, batch_files,
            batch_info, spc>>

vars == <<chunkVars, dlVars, mgVars, spVars>>

\* the batch splitter is not running
IdleSplit ==
    /\ id_column = <<>>
    /\ VIDEOS_PER_BATCH = 1
    /\ video_ids = <<>>
    /\ num_batches = 0
    /\ bidx = 0
    /\ batch_files = <<>>
    /\ batch_info = <<>>
    /\ spc = "off"

\* the merge script is not running
IdleMerge ==
    /\ batch_dirs = <<>>
    /\ output_dir = <<>>
    /\ bi = 0
    /\ video_dirs_left = <<>>
    /\ all_videos = <<>>
    /\ total_chunks = 0
    /\ errors = <<>>
    /\ stats = <<>>
    /\ mpc = "off"
    /\ handled = <<>>

\* the chunker is not running
IdleChunker ==
    /\ segments = <<>>
    /\ min_duration = MIN_CHUNK_DURATION
    /\ max_duration = MAX_CHUNK_DURATION
    /\ chunks = <<>>
    /\ chunk_id = 0
    /\ i = 0
    /\ target_duration = 0
    /\ chunk_start = 0
    /\ chunk_segments = <<>>
    /\ chunk_texts = <<>>
    /\ current_duration = 0
    /\ cpc = "idle"

\* the download script is not running
IdleDownload ==
    /\ START_INDEX = 0
    /\ BATCH_SIZE = 1
    /\ SAVE_EVERY = 1
    /\ RESUME = TRUE
    /\ progress_file = [exists |-> FALSE, completed |-> {}]
    /\ video_dirs = <<>>
    /\ downloaded = {}
    /\ batch_videos = <<>>
    /\ idx = 0
    /\ processed = 0
    /\ rate_limited = FALSE
    /\ results = <<>>
    /\ dpc = "off"
    /\ loaded = {}
    /\ fetches = <<>>
    /\ saves = <<>>

\* ------------------------------------------------------------------ helpers
RECURSIVE SumSteps(_, _)
\* start of the k-th segment: the start-to-start steps added up
SumSteps(steps, k) == IF k = 0 THEN 0 ELSE steps[k] + SumSteps(steps, k - 1)

\* A text is a sequence of words; word 0 is the separator " " that join inserts.
SEP == 0

\* The segment sequences fed to the chunker: ordered by start (every step is
\* >= 0), durations positive, gaps and overlaps both possible, as the
\* transcript provider returns them.  Segment k carries the one-word text <<k>>.
MkSegments(n, durs, steps) ==
    [k \in 1..n |-> [start |-> SumSteps(steps, k), duration |-> durs[k], text |-> <<k>>]]

\* The 10 x 3 s transcript of the scenario: starts 0, 3, ..., 27
ScenarioSegments ==
    [k \in 1..10 |-> [start |-> 3 * (k - 1), duration |-> 3, text |-> <<k>>]]

RECURSIVE Join(_)
\* " ".join(chunk_texts)
Join(texts) ==
    IF texts = <<>> THEN <<>>
    ELSE IF Len(texts) = 1 THEN texts[1]
    ELSE texts[1] \o <<SEP>> \o Join(Tail(texts))

\* random.uniform(min_duration, max_duration)
Targets(mn, mx) == mn..mx

\* variant: the catch-up branch never taken
BelowMinimumOff(cur, mn) == FALSE
\* line 131: if current_duration < min_duration
BelowMinimum(cur, mn) == cur < mn

\* variant: the max_duration test left out
ShouldStopNoMax(cur, new, tgt, mx) == cur >= tgt
\* variant: >= where the code has >
ShouldStopAtMax(cur, new, tgt, mx) == cur >= tgt \/ new >= mx
\* line 142: if current_duration >= target_duration or new_duration > max_duration
ShouldStop(cur, new, tgt, mx) == cur >= tgt \/ new > mx

\* lines 153-162: the chunk record
MakeChunk(id, cstart, csegs, ctexts, tgt) ==
    LET chunk_end == csegs[Len(csegs)].start + csegs[Len(csegs)].duration
    IN [chunk_id |-> id,
        start |-> cstart,
        end |-> chunk_end,
        duration |-> chunk_end - cstart,
        text |-> Join(ctexts),
        segments |-> Len(csegs),
        target_duration |-> tgt]

\* ------------------------------------------------------------------ chunker
InitChunker ==
    /\ \/ \E n \in 0..MaxSegs :
            \E durs \in [1..n -> 1..MaxDur], steps \in [1..n -> 0..MaxDur] :
               /\ (n > 0 => steps[1] <= 1)
               /\ segments = MkSegments(n, durs, steps)
               /\ min_duration \in 1..MaxDur
               /\ max_duration \in min_duration..(MaxDur + 1)
       \/ /\ segments = ScenarioSegments
          /\ min_duration = MIN_CHUNK_DURATION
          /\ max_duration = MAX_CHUNK_DURATION
    /\ chunks = <<>>
    /\ chunk_id = 0
    /\ i = 0
    /\ target_duration = 0
    /\ chunk_start = 0
    /\ chunk_segments = <<>>
    /\ chunk_texts = <<>>
    /\ current_duration = 0
    /\ cpc = "entry"
    /\ IdleDownload
    /\ IdleMerge
    /\ IdleSplit

\* lines 97-98: if not segments: return []
ReturnEmpty ==
    /\ cpc = "entry"
    /\ segments = <<>>
    /\ cpc' = "done"
    /\ UNCHANGED <<segments, min_duration, max_duration, chunks, chunk_id, i,
                   target_duration, chunk_start, chunk_segments, chunk_texts,
                   current_duration>>

\* lines 100-102
Enter ==
    /\ cpc = "entry"
    /\ segments # <<>>
    /\ chunks' = <<>>
    /\ chunk_id' = 0
    /\ i' = 0
    /\ cpc' = "outer"
    /\ UNCHANGED <<segments, min_duration, max_duration, target_duration,
                   chunk_start, chunk_segments, chunk_texts, current_duration>>

\* variant: the chunk start not taken from the segment under the cursor
OuterLoopStartZero ==
    /\ cpc = "outer"
    /\ i < Len(segments)
    /\ \E t \in Targets(min_duration, max_duration) : target_duration' = t
    /\ chunk_start' = 0
    /\ chunk_segments' = <<>>
    /\ chunk_texts' = <<>>
    /\ current_duration' = 0
    /\ cpc' = "inner"
    /\ UNCHANGED <<segments, min_duration, max_duration, chunks, chunk_id, i>>

\* lines 104-112: draw the target and start a new chunk
OuterLoop ==
    /\ cpc = "outer"
    /\ i < Len(segments)
    /\ \E t \in Targets(min_duration, max_duration) : target_duration' = t
    /\ chunk_start' = segments[i + 1].start
    /\ chunk_segments' = <<>>
    /\ chunk_texts' = <<>>
    /\ current_duration' = 0
    /\ cpc' = "inner"
    /\ UNCHANGED <<segments, min_duration, max_duration, chunks, chunk_id, i>>

\* the append of lines 121-124, 132-135 and 146-149
Consume ==
    /\ chunk_segments' = Append(chunk_segments, segments[i + 1])
    /\ chunk_texts' = Append(chunk_texts, segments[i + 1].text)
    /\ current_duration' = current_duration + segments[i + 1].duration
    /\ i' = i + 1
    /\ UNCHANGED <<segments, min_duration, max_duration, chunks, chunk_id,
                   target_duration, chunk_start, cpc>>

\* lines 120-125: always include at least one segment
InnerFirst ==
    /\ cpc = "inner"
    /\ i < Len(segments)
    /\ chunk_segments = <<>>
    /\ Consume

\* lines 131-136: below the minimum, keep adding
InnerBelowMin ==
    /\ cpc = "inner"
    /\ i < Len(segments)
    /\ chunk_segments # <<>>
    /\ BelowMinimum(current_duration, min_duration)
    /\ Consume

\* variant: the break also steps over the segment it looked at
InnerBreakSkip ==
    /\ cpc = "inner"
    /\ i < Len(segments)
    /\ chunk_segments # <<>>
    /\ ~BelowMinimum(current_duration, min_duration)
    /\ ShouldStop(current_duration, current_duration + segments[i + 1].duration,
                  target_duration, max_duration)
    /\ cpc' = "emit"
    /\ i' = i + 1
    /\ UNCHANGED <<segments, min_duration, max_duration, chunks, chunk_id,
                   target_duration, chunk_start, chunk_segments, chunk_texts,
                   current_duration>>

\* lines 142-143: past the minimum and a stop condition holds: break
InnerBreak ==
    /\ cpc = "inner"
    /\ i < Len(segments)
    /\ chunk_segments # <<>>
    /\ ~BelowMinimum(current_duration, min_duration)
    /\ ShouldStop(current_duration, current_duration + segments[i + 1].duration,
                  target_duration, max_duration)
    /\ cpc' = "emit"
    /\ UNCHANGED <<segments, min_duration, max_duration, chunks, chunk_id, i,
                   target_duration, chunk_start, chunk_segments, chunk_texts,
                   current_duration>>

\* lines 145-149: otherwise add the segment and continue
InnerAdd ==
    /\ cpc = "inner"
    /\ i < Len(segments)
    /\ chunk_segments # <<>>
    /\ ~BelowMinimum(current_duration, min_duration)
    /\ ~ShouldStop(current_duration, current_duration + segments[i + 1].duration,
                   target_duration, max_duration)
    /\ Consume

\* line 115: the inner while ends because the segments ran out
InnerExit ==
    /\ cpc = "inner"
    /\ i >= Len(segments)
    /\ cpc' = "emit"
    /\ UNCHANGED <<segments, min_duration, max_duration, chunks, chunk_id, i,
                   target_duration, chunk_start, chunk_segments, chunk_texts,
                   current_duration>>

\* lines 151-163: create the chunk
CreateChunk ==
    /\ cpc = "emit"
    /\ IF chunk_segments # <<>>
       THEN /\ chunks' = Append(chunks, MakeChunk(chunk_id, chunk_start,
                                    chunk_segments, chunk_texts, target_duration))
            /\ chunk_id' = chunk_id + 1
       ELSE UNCHANGED <<chunks, chunk_id>>
    /\ cpc' = "outer"
    /\ UNCHANGED <<segments, min_duration, max_duration, i, target_duration,
                   chunk_start, chunk_segments, chunk_texts, current_duration>>

\* lines 104, 165: the outer while ends, return chunks
Return ==
    /\ cpc = "outer"
    /\ i >= Len(segments)
    /\ cpc' = "done"
    /\ UNCHANGED <<segments, min_duration, max_duration, chunks, chunk_id, i,
                   target_duration, chunk_start, chunk_segments, chunk_texts,
                   current_duration>>

NextChunker ==
    \/ ReturnEmpty /\ UNCHANGED <<dlVars, mgVars, spVars>>
    \/ Enter /\ UNCHANGED <<dlVars, mgVars, spVars>>
    \/ OuterLoop /\ UNCHANGED <<dlVars, mgVars, spVars>>
    \/ InnerFirst /\ UNCHANGED <<dlVars, mgVars, spVars>>
    \/ InnerBelowMin /\ UNCHANGED <<dlVars, mgVars, spVars>>
    \/ InnerBreak /\ UNCHANGED <<dlVars, mgVars, spVars>>
    \/ InnerAdd /\ UNCHANGED <<dlVars, mgVars, spVars>>
    \/ InnerExit /\ UNCHANGED <<dlVars, mgVars, spVars>>
    \/ CreateChunk /\ UNCHANGED <<dlVars, mgVars, spVars>>
    \/ Return /\ UNCHANGED <<dlVars, mgVars, spVars>>

SpecChunker == InitChunker /\ [][NextChunker]_vars

\* ------------------------------------------------------------------ chunker: derived
RECURSIVE SegmentsBefore(_)
\* number of segments held by chunks 1..k
SegmentsBefore(k) == IF k = 0 THEN 0 ELSE chunks[k].segments + SegmentsBefore(k - 1)

\* index in segments of the first / last segment of chunk k
ChunkFirst(k) == SegmentsBefore(k - 1) + 1
ChunkLast(k) == SegmentsBefore(k)

RECURSIVE AccDuration(_, _)
\* sum of the durations of segments a..b
AccDuration(a, b) == IF a > b THEN 0 ELSE segments[b].duration + AccDuration(a, b - 1)

RECURSIVE ConcatTexts(_, _)
\* the texts of segments a..b one after the other
ConcatTexts(a, b) == IF a > b THEN <<>> ELSE ConcatTexts(a, b - 1) \o segments[b].text

RECURSIVE ConcatChunkTexts(_)
\* the texts of chunks 1..k one after the other, the inserted separators removed
ConcatChunkTexts(k) ==
    IF k = 0 THEN <<>>
    ELSE ConcatChunkTexts(k - 1) \o SelectSeq(chunks[k].text, LAMBDA w : w # SEP)

SegEnd(k) == segments[k].start + segments[k].duration

\* every segment starts where the previous one ended
Contiguous == \A k \in 1..(Len(segments) - 1) : segments[k + 1].start = SegEnd(k)
\* no segment starts after the previous one ended
NoGaps == \A k \in 1..(Len(segments) - 1) : segments[k + 1].start <= SegEnd(k)
\* no segment starts before the previous one ended
NoOverlaps == \A k \in 1..(Len(segments) - 1) : segments[k + 1].start >= SegEnd(k)
\* the segments' end times are ordered as their start times are
EndsOrdered == \A k \in 1..(Len(segments) - 1) : SegEnd(k + 1) >= SegEnd(k)

\* chunk_smart_duration has returned: chunks is its result
Returned == cpc = "done"

IsScenario ==
    /\ segments = ScenarioSegments
    /\ min_duration = MIN_CHUNK_DURATION
    /\ max_duration = MAX_CHUNK_DURATION

\* ------------------------------------------------------------------ claims C1..C5

\* C1: the chunks partition the segment sequence into consecutive non-empty
\* runs: every chunk holds at least one segment, chunk k holds exactly the
\* segments that follow those of chunk k-1, its text is their texts joined,
\* and on return the chunk texts (separators removed) read in chunk_id order
\* are the input texts in their order, nothing dropped, repeated or moved.
C1_Partition ==
    Returned =>
       /\ \A k \in 1..Len(chunks) :
             /\ chunks[k].chunk_id = k - 1
             /\ chunks[k].segments >= 1
             /\ ChunkLast(k) <= Len(segments)
             /\ chunks[k].text =
                   Join([j \in 1..chunks[k].segments |-> segments[ChunkFirst(k) + j - 1].text])
       /\ SegmentsBefore(Len(chunks)) = Len(segments)
       /\ ConcatChunkTexts(Len(chunks)) = ConcatTexts(1, Len(segments))

C1_Witness ==
    /\ Returned
    /\ Len(chunks) >= 2
    /\ \E k \in 1..Len(chunks) : chunks[k].segments >= 2

\* C2 as stated, read on contiguous segment sequences (so that no gap
\* between segments adds to a duration): no chunk is longer than
\* max_duration unless it is a single segment that alone exceeds max_duration.
C2_Original ==
    (Returned /\ Contiguous) => \A k \in 1..Len(chunks) :
        chunks[k].duration > max_duration =>
            /\ chunks[k].segments = 1
            /\ segments[ChunkFirst(k)].duration > max_duration

\* C2 amended: a chunk's accumulated segment time exceeds max_duration only
\* when its segments before the last one total less than min_duration (the
\* catch-up branch, which a single-segment chunk is a case of); and when the
\* segments leave no gaps the chunk's duration is at most that accumulated
\* time, so it exceeds max_duration only in that case.
C2_MaxUnlessCatchUp ==
    Returned => \A k \in 1..Len(chunks) :
        /\ AccDuration(ChunkFirst(k), ChunkLast(k)) > max_duration =>
              AccDuration(ChunkFirst(k), ChunkLast(k) - 1) < min_duration
        /\ NoGaps =>
              (chunks[k].duration > max_duration =>
                  AccDuration(ChunkFirst(k), ChunkLast(k) - 1) < min_duration)

C2_Witness ==
    /\ Returned
    /\ NoGaps
    /\ Len(chunks) >= 2
    /\ \E k \in 1..Len(chunks) :
          /\ chunks[k].segments >= 2
          /\ chunks[k].duration > max_duration

\* C3 as stated: every chunk but the last has end - start >= min_duration or
\* is a single segment that alone exceeds min_duration.
C3_Original ==
    Returned => \A k \in 1..(Len(chunks) - 1) :
        \/ chunks[k].duration >= min_duration
        \/ /\ chunks[k].segments = 1
           /\ segments[ChunkFirst(k)].duration > min_duration

\* C3 amended: every chunk but the last has accumulated segment time
\* >= min_duration; when no segment starts before the previous one ended,
\* its duration (end - start) is >= min_duration too.
C3_MinExceptLast ==
    Returned => \A k \in 1..(Len(chunks) - 1) :
        /\ AccDuration(ChunkFirst(k), ChunkLast(k)) >= min_duration
        /\ NoOverlaps => chunks[k].duration >= min_duration

C3_Witness ==
    /\ Returned
    /\ NoOverlaps
    /\ Len(chunks) >= 2
    /\ chunks[1].segments >= 2
    /\ chunks[Len(chunks)].duration < min_duration

\* C4 as stated: the 10 x 3 s scenario gives one chunk of 10 segments and
\* duration 30 whatever target is drawn.
C4_Original ==
    (Returned /\ IsScenario) =>
        /\ Len(chunks) = 1
        /\ chunks[1].segments = 10
        /\ chunks[1].duration = 30

\* C4 amended: the 10 x 3 s scenario gives one chunk of 10 segments and
\* duration 30 when the first target drawn is greater than 27; a target of
\* at most 27 ends the first chunk earlier (at 21, 24 or 27 s).
C4_ScenarioOneChunk ==
    (Returned /\ IsScenario) =>
        /\ chunks[1].target_duration > 27 =>
              /\ Len(chunks) = 1
              /\ chunks[1].segments = 10
              /\ chunks[1].duration = 30
        /\ chunks[1].target_duration <= 27 =>
              /\ Len(chunks) >= 2
              /\ chunks[1].duration \in {21, 24, 27}

C4_Witness ==
    /\ Returned
    /\ IsScenario
    /\ chunks[1].target_duration > 27
    /\ Len(chunks) = 1

\* C5 as stated: for segments ordered by start, chunk starts and chunk ends
\* are non-decreasing along chunk_id and chunk 0 starts at the first segment.
C5_Original ==
    Returned =>
       /\ \A k \in 1..(Len(chunks) - 1) :
             /\ chunks[k].start <= chunks[k + 1].start
             /\ chunks[k].end <= chunks[k + 1].end
       /\ Len(chunks) >= 1 => chunks[1].start = segments[1].start

\* C5 amended: chunk starts are non-decreasing along chunk_id and chunk 0
\* starts at the first segment's start; chunk ends are non-decreasing when
\* the segments' end times are non-decreasing as well.
C5_Monotone ==
    Returned =>
       /\ \A k \in 1..(Len(chunks) - 1) :
             /\ chunks[k].start <= chunks[k + 1].start
             /\ EndsOrdered => chunks[k].end <= chunks[k + 1].end
       /\ Len(chunks) >= 1 => chunks[1].start = segments[1].start

C5_Witness ==
    /\ Returned
    /\ EndsOrdered
    /\ Len(chunks) >= 2
    /\ segments[1].start > 0
    /\ chunks[1].end < chunks[2].end

\* ------------------------------------------------------------------ download script

\* line 55: the master list, ids unique and in CSV order
all_video_ids == [k \in 1..NumVideos |-> k]

\* s[a:b] of Python for 0 <= a <= b
Slice(s, a, b) == SubSeq(s, a + 1, IF b < Len(s) THEN b ELSE Len(s))

\* variant: the window cut out of the master list, then filtered
BatchWindowOfMaster(master, done, start, size) ==
    SelectSeq(Slice(master, start, start + size), LAMBDA v : v \notin done)
\* lines 67-68: remaining_videos, then batch_videos
BatchWindow(master, done, start, size) ==
    Slice(SelectSeq(master, LAMBDA v : v \notin done), start, start + size)

\* "x in error_msg" for a message given as its sequence of fragments
Contains(msg, x) == \E k \in 1..Len(msg) : msg[k] = x

\* the str(e) of the exceptions api.fetch and the file writes raise
Messages ==
    { <<"HTTP Error ", "429">>,
      <<"Too Many Requests">>,
      <<"Subtitles are disabled for this video">> }

\* lines 234-246: the except branch's result
ErrorResult(msg) ==
    IF Contains(msg, "429") \/ Contains(msg, "Too Many Requests")
    THEN [success |-> FALSE, error |-> <<"RateLimited">>]
    ELSE [success |-> FALSE, error |-> SubSeq(msg, 1, IF Len(msg) < 100 THEN Len(msg) ELSE 100)]

\* lines 178-183
EmptyResult == [success |-> FALSE, error |-> <<"No segments found">>]
\* lines 227-232
SuccessResult == [success |-> TRUE, error |-> <<>>]

\* variant: the test made on the count before the increment
SaveDueBeforeIncrement(n, every) == (n - 1) % every = 0
\* line 293: processed % SAVE_EVERY == 0
SaveDue(n, every) == n % every = 0

\* lines 294-299 and 308-313: json.dump of the progress record
WriteProgress(final) ==
    /\ progress_file' = [exists |-> TRUE, completed |-> downloaded']
    /\ saves' = Append(saves, [processed |-> processed', completed |-> downloaded',
                               final |-> final])

InitDownload ==
    /\ IdleChunker
    /\ IdleMerge
    /\ IdleSplit
    /\ START_INDEX \in 0..MaxStart
    /\ BATCH_SIZE \in 1..MaxBatch
    /\ SAVE_EVERY \in 1..MaxSaveEvery
    /\ RESUME \in BOOLEAN
    /\ progress_file \in {[exists |-> FALSE, completed |-> {}]} \cup
                         {[exists |-> TRUE, completed |-> c] : c \in SUBSET (1..NumVideos)}
    /\ video_dirs = [v \in 1..NumVideos |->
                       IF v \in progress_file.completed THEN "complete" ELSE "none"]
    /\ downloaded = {}
    /\ batch_videos = <<>>
    /\ idx = 0
    /\ processed = 0
    /\ rate_limited = FALSE
    /\ results = <<>>
    /\ dpc = "start"
    /\ loaded = {}
    /\ fetches = <<>>
    /\ saves = <<>>

\* lines 58-75 and 256-259: load the progress, filter, take the batch window
StartRun ==
    /\ dpc \in {"start", "done", "exited"}
    /\ LET completed == IF RESUME /\ progress_file.exists
                        THEN progress_file.completed ELSE {}
           batch == BatchWindow(all_video_ids, completed, START_INDEX, BATCH_SIZE)
       IN /\ downloaded' = completed
          /\ loaded' = completed
          /\ batch_videos' = batch
          /\ dpc' = IF Len(batch) = 0 THEN "exited" ELSE "loop"
    /\ idx' = 0
    /\ processed' = 0
    /\ rate_limited' = FALSE
    /\ results' = <<>>
    /\ fetches' = <<>>
    /\ saves' = <<>>
    /\ UNCHANGED <<START_INDEX, BATCH_SIZE, SAVE_EVERY, RESUME, progress_file, video_dirs>>

\* lines 282-305: the rest of the loop body once the video was not rate limited
Recorded(video_id, result) ==
    /\ results' = Append(results, [video_id |-> video_id, success |-> result.success,
                                   error |-> result.error])
    /\ processed' = processed + 1
    /\ IF SaveDue(processed', SAVE_EVERY)
       THEN WriteProgress(FALSE)
       ELSE UNCHANGED <<progress_file, saves>>
    /\ idx' = idx + 1
    /\ dpc' = IF idx + 1 < Len(batch_videos) THEN "loop" ELSE "final"
    /\ UNCHANGED <<rate_limited>>

\* lines 261-273 with download_transcript_chunks returning at 227: success
IterSuccess ==
    /\ dpc = "loop"
    /\ LET video_id == batch_videos[idx + 1]
       IN /\ fetches' = Append(fetches, video_id)
          /\ video_dirs' = [video_dirs EXCEPT ![video_id] = "complete"]
          /\ downloaded' = downloaded \cup {video_id}
          /\ Recorded(video_id, SuccessResult)
    /\ UNCHANGED <<START_INDEX, BATCH_SIZE, SAVE_EVERY, RESUME, batch_videos, loaded>>

\* variant: the video with no segments marked as completed
IterEmptyMarksDone ==
    /\ dpc = "loop"
    /\ LET video_id == batch_videos[idx + 1]
       IN /\ fetches' = Append(fetches, video_id)
          /\ downloaded' = downloaded \cup {video_id}
          /\ Recorded(video_id, EmptyResult)
    /\ UNCHANGED <<START_INDEX, BATCH_SIZE, SAVE_EVERY, RESUME, batch_videos, loaded,
                   video_dirs>>
\* lines 261-280 with download_transcript_chunks returning at 179: no segments
IterEmpty ==
    /\ dpc = "loop"
    /\ LET video_id == batch_videos[idx + 1]
       IN /\ fetches' = Append(fetches, video_id)
          /\ downloaded' = downloaded
          /\ Recorded(video_id, EmptyResult)
    /\ UNCHANGED <<START_INDEX, BATCH_SIZE, SAVE_EVERY, RESUME, batch_videos, loaded,
                   video_dirs>>

\* lines 261-280 with api.fetch raising an error that is not a rate limit
IterFetchError ==
    /\ dpc = "loop"
    /\ \E msg \in Messages :
          /\ ErrorResult(msg).error # <<"RateLimited">>
          /\ LET video_id == batch_videos[idx + 1]
             IN /\ fetches' = Append(fetches, video_id)
                /\ downloaded' = downloaded
                /\ Recorded(video_id, ErrorResult(msg))
    /\ UNCHANGED <<START_INDEX, BATCH_SIZE, SAVE_EVERY, RESUME, batch_videos, loaded,
                   video_dirs>>

\* lines 261-280 with a file write of lines 193-225 raising (not a rate limit text)
IterWriteError ==
    /\ dpc = "loop"
    /\ \E msg \in Messages :
          /\ ErrorResult(msg).error # <<"RateLimited">>
          /\ LET video_id == batch_videos[idx + 1]
             IN /\ fetches' = Append(fetches, video_id)
                /\ video_dirs' = [video_dirs EXCEPT ![video_id] = "partial"]
                /\ downloaded' = downloaded
                /\ Recorded(video_id, ErrorResult(msg))
    /\ UNCHANGED <<START_INDEX, BATCH_SIZE, SAVE_EVERY, RESUME, batch_videos, loaded>>

\* variant: the flag set but the loop continued with the next video
IterRateLimitedContinue ==
    /\ dpc = "loop"
    /\ \E msg \in Messages :
          /\ ErrorResult(msg).error = <<"RateLimited">>
          /\ fetches' = Append(fetches, batch_videos[idx + 1])
    /\ rate_limited' = TRUE
    /\ idx' = idx + 1
    /\ dpc' = IF idx + 1 < Len(batch_videos) THEN "loop" ELSE "final"
    /\ UNCHANGED <<START_INDEX, BATCH_SIZE, SAVE_EVERY, RESUME, progress_file, video_dirs,
                   downloaded, batch_videos, processed, results, loaded, saves>>

\* lines 261-278 with the result 'RateLimited': set the flag and break
IterRateLimited ==
    /\ dpc = "loop"
    /\ \E msg \in Messages :
          /\ ErrorResult(msg).error = <<"RateLimited">>
          /\ fetches' = Append(fetches, batch_videos[idx + 1])
    /\ rate_limited' = TRUE
    /\ dpc' = "final"
    /\ UNCHANGED <<START_INDEX, BATCH_SIZE, SAVE_EVERY, RESUME, progress_file, video_dirs,
                   downloaded, batch_videos, idx, processed, results, loaded, saves>>

\* lines 307-313: the final progress save (the summary that follows writes no state
\* the model keeps)
FinalSave ==
    /\ dpc = "final"
    /\ downloaded' = downloaded
    /\ processed' = processed
    /\ WriteProgress(TRUE)
    /\ dpc' = "done"
    /\ UNCHANGED <<START_INDEX, BATCH_SIZE, SAVE_EVERY, RESUME, video_dirs, batch_videos,
                   idx, rate_limited, results, loaded, fetches>>

\* the steps of one run, from the first video to the final save
RunStep ==
    \/ IterSuccess
    \/ IterEmpty
    \/ IterFetchError
    \/ IterWriteError
    \/ IterRateLimited
    \/ FinalSave

NextDownload ==
    \/ StartRun /\ UNCHANGED <<chunkVars, mgVars, spVars>>
    \/ IterSuccess /\ UNCHANGED <<chunkVars, mgVars, spVars>>
    \/ IterEmpty /\ UNCHANGED <<chunkVars, mgVars, spVars>>
    \/ IterFetchError /\ UNCHANGED <<chunkVars, mgVars, spVars>>
    \/ IterWriteError /\ UNCHANGED <<chunkVars, mgVars, spVars>>
    \/ IterRateLimited /\ UNCHANGED <<chunkVars, mgVars, spVars>>
    \/ FinalSave /\ UNCHANGED <<chunkVars, mgVars, spVars>>

SpecDownload == InitDownload /\ [][NextDownload]_vars

\* The script is one sequential process: a run that has started keeps executing
\* until its final save.
FairSpecDownload == SpecDownload /\ WF_vars(RunStep /\ UNCHANGED <<chunkVars, mgVars, spVars>>)

\* ------------------------------------------------------------------ claims C6..C8

\* the video being processed when the loop is at index idx
CurrentVideo == batch_videos[idx + 1]

\* the progress writes made inside the loop (line 293), in order
PeriodicSaves == SelectSeq(saves, LAMBDA w : ~w.final)
FinalSaves == SelectSeq(saves, LAMBDA w : w.final)

\* the ids of the first n results that succeeded
SucceededIn(n) == {results[k].video_id : k \in {j \in 1..n : results[j].success}}

\* C6: the step in which a fetch comes back RateLimited fetches the current
\* video, sets the flag and leaves the loop at that video; while the flag is
\* set no further fetch is issued in that run; and the run goes on to the
\* final progress save, which writes the completed set.
C6_RateLimitStopsRun ==
    /\ [][(~rate_limited /\ rate_limited') =>
             /\ fetches' = Append(fetches, CurrentVideo)
             /\ dpc' = "final"
             /\ idx' = idx]_vars
    /\ [][(rate_limited /\ rate_limited') => fetches' = fetches]_vars
    /\ (rate_limited ~>
           (/\ rate_limited
            /\ dpc = "done"
            /\ saves # <<>>
            /\ saves[Len(saves)].final
            /\ progress_file = [exists |-> TRUE, completed |-> downloaded]))

C6_Witness ==
    /\ rate_limited
    /\ dpc = "done"
    /\ Len(fetches) >= 2
    /\ Len(fetches) < Len(batch_videos)
    /\ saves[Len(saves)].final

\* C7 as stated: inside the loop the progress file is written after every
\* N-th successful video, N = SAVE_EVERY, counting successful videos only.
C7_Original ==
    dpc \in {"loop", "final", "done"} =>
        Len(PeriodicSaves) = Cardinality(SucceededIn(Len(results))) \div SAVE_EVERY

\* C7 amended: inside the loop the progress file is written after every N-th
\* processed video (N = SAVE_EVERY; processed counts every video that was not
\* rate limited, failed ones included), each time with the completed set of
\* that moment; and the main loop is followed by exactly one more write of
\* the completed set, also when it was left on rate limiting.  (A run that
\* finds nothing to download exits before the loop and writes nothing.)
C7_SaveEveryProcessed ==
    /\ dpc = "exited" => saves = <<>>
    /\ dpc \in {"loop", "final", "done"} =>
        /\ Len(PeriodicSaves) = processed \div SAVE_EVERY
        /\ \A k \in 1..Len(PeriodicSaves) :
              /\ PeriodicSaves[k].processed = k * SAVE_EVERY
              /\ PeriodicSaves[k].completed = loaded \cup SucceededIn(k * SAVE_EVERY)
        /\ dpc # "done" => FinalSaves = <<>>
        /\ dpc = "done" =>
              /\ Len(FinalSaves) = 1
              /\ saves[Len(saves)].final
              /\ saves[Len(saves)].completed = downloaded
              /\ progress_file = [exists |-> TRUE, completed |-> downloaded]

C7_Witness ==
    /\ dpc = "done"
    /\ rate_limited
    /\ SAVE_EVERY = 2
    /\ Len(PeriodicSaves) = 1
    /\ Cardinality(SucceededIn(Len(results))) = 1

\* number of not yet completed ids before position k of the master list
Rank(k) == Cardinality({u \in 1..(k - 1) : all_video_ids[u] \notin loaded})

\* position k of the master list falls in the run's window
InWindow(k) ==
    /\ all_video_ids[k] \notin loaded
    /\ Rank(k) >= START_INDEX
    /\ Rank(k) < START_INDEX + BATCH_SIZE

\* C8: the work list holds, in master order, exactly the ids that are not in
\* the loaded completed set and whose index among the not completed ids is in
\* [START_INDEX, START_INDEX + BATCH_SIZE); the completed set loaded is the
\* progress file's when resuming; only ids of the work list are fetched, in
\* order, so no id of the loaded completed set is fetched.
C8_WorkList ==
    dpc \in {"loop", "final", "done", "exited"} =>
        /\ Len(batch_videos) = Cardinality({k \in 1..Len(all_video_ids) : InWindow(k)})
        /\ \A j \in 1..Len(batch_videos) :
              \E k \in 1..Len(all_video_ids) :
                 /\ InWindow(k)
                 /\ Rank(k) = START_INDEX + j - 1
                 /\ batch_videos[j] = all_video_ids[k]
        /\ Len(fetches) <= Len(batch_videos)
        /\ \A j \in 1..Len(fetches) :
              /\ fetches[j] = batch_videos[j]
              /\ fetches[j] \notin loaded
        /\ (dpc \in {"loop", "exited"} /\ fetches = <<>>) =>
              loaded = IF RESUME /\ progress_file.exists
                       THEN progress_file.completed ELSE {}

C8_Witness ==
    /\ dpc = "done"
    /\ START_INDEX > 0
    /\ loaded # {}
    /\ Len(fetches) = 2
    /\ \E j \in 1..Len(batch_videos) :
          batch_videos[j] # all_video_ids[START_INDEX + j]

\* ------------------------------------------------------------------ claim C12

\* the ids of the results that did not succeed
FailedIds == {results[k].video_id : k \in {j \in 1..Len(results) : ~results[j].success}}

\* the video whose fetch came back RateLimited, if any
RateLimitedIds == IF rate_limited THEN {fetches[Len(fetches)]} ELSE {}

\* the completed set a run starts from is the one the progress file holds
LoadsProgressFile ==
    (dpc \in {"start", "done", "exited"} /\ dpc' \in {"loop", "exited"}) =>
        loaded' = IF progress_file.exists THEN progress_file.completed ELSE {}

\* a write of the progress file keeps every id and adds only ids that
\* succeeded in this run and whose directory was written
SaveOnlyGrows ==
    /\ progress_file.completed \subseteq progress_file'.completed
    /\ progress_file' # progress_file =>
          /\ progress_file'.exists
          /\ progress_file'.completed = downloaded'
          /\ progress_file'.completed \subseteq loaded' \cup SucceededIn(Len(results))'

\* C12: with resume enabled, in every run the completed set is the set loaded
\* from the progress file plus the ids whose fetch succeeded in this run, all
\* of which have their directory written completely; an id whose result was
\* 'No segments found', another error, or RateLimited is not in it; every
\* write of the progress file in the run holds such a set; and from one write
\* to the next, also across runs, the persisted set loses no id.
C12_CompletedOnlySucceeded ==
    /\ [](RESUME /\ dpc \in {"loop", "final", "done"} =>
            /\ downloaded = loaded \cup SucceededIn(Len(results))
            /\ \A v \in SucceededIn(Len(results)) : video_dirs[v] = "complete"
            /\ FailedIds \cap downloaded = {}
            /\ RateLimitedIds \cap downloaded = {}
            /\ \A k \in 1..Len(saves) :
                  /\ saves[k].completed = loaded \cup SucceededIn(saves[k].processed)
                  /\ saves[k].completed \cap (FailedIds \cup RateLimitedIds) = {}
                  /\ k > 1 => saves[k - 1].completed \subseteq saves[k].completed
            /\ saves # <<>> => progress_file.completed = saves[Len(saves)].completed)
    /\ [][RESUME => (LoadsProgressFile /\ SaveOnlyGrows)]_vars

C12_Witness ==
    /\ RESUME
    /\ dpc = "done"
    /\ loaded # {}
    /\ rate_limited
    /\ \E k \in 1..Len(results) : results[k].error = <<"No segments found">>
    /\ \E k \in 1..Len(results) :
          /\ results[k].success
          /\ \E j \in 1..(k - 1) : ~results[j].success
    /\ Len(saves) >= 2
    /\ progress_file.completed # loaded

\* ------------------------------------------------------------------ merge script

RECURSIVE Listing(_)
\* os.listdir of a directory holding the video directories S, lowest id first
Listing(S) ==
    IF S = {} THEN <<>>
    ELSE LET v == CHOOSE x \in S : \A y \in S : x <= y
         IN <<v>> \o Listing(S \ {v})

\* the str(e) of what shutil.copytree and the metadata read raise
CopyErrors == { <<"Permission denied">> }
MetadataErrors == { <<"Expecting value">> }

\* line 76: os.path.exists(dest_path)
DestExists(video_id) == output_dir[video_id].state # "none"

InitMerge ==
    /\ IdleChunker
    /\ IdleDownload
    /\ IdleSplit
    /\ batch_dirs \in [1..NumBatches -> SUBSET (1..NumIds)]
    \* line 55: the output directory may be there from an earlier merge
    /\ \E old \in SUBSET (1..NumIds) :
          output_dir = [v \in 1..NumIds |->
                          IF v \in old THEN [state |-> "complete", origin |-> 0]
                          ELSE [state |-> "none", origin |-> 0]]
    /\ bi = 0
    /\ video_dirs_left = <<>>
    /\ all_videos = <<>>
    /\ total_chunks = 0
    /\ errors = <<>>
    /\ stats = <<>>
    /\ mpc = "batches"
    /\ handled = <<>>

\* lines 64-69: next batch directory, list its video directories
EnterBatch ==
    /\ mpc = "batches"
    /\ bi < Len(batch_dirs)
    /\ bi' = bi + 1
    /\ video_dirs_left' = Listing(batch_dirs[bi + 1])
    /\ mpc' = "videos"
    /\ UNCHANGED <<batch_dirs, output_dir, all_videos, total_chunks, errors, stats, handled>>

\* line 71: the inner for ends
LeaveBatch ==
    /\ mpc = "videos"
    /\ video_dirs_left = <<>>
    /\ mpc' = "batches"
    /\ UNCHANGED <<batch_dirs, output_dir, bi, video_dirs_left, all_videos, total_chunks,
                   errors, stats, handled>>

\* the inner loop moves to the next video, what was done with this one noted
Handled(outcome) ==
    /\ handled' = Append(handled, [batch |-> bi, video_id |-> Head(video_dirs_left),
                                   outcome |-> outcome])
    /\ video_dirs_left' = Tail(video_dirs_left)
    /\ UNCHANGED <<batch_dirs, bi, stats, mpc>>

\* variant: the duplicate counted as an error
SkipDuplicateAsError ==
    /\ mpc = "videos"
    /\ video_dirs_left # <<>>
    /\ DestExists(Head(video_dirs_left))
    /\ \E msg \in CopyErrors :
          errors' = Append(errors, [video_id |-> Head(video_dirs_left), error |-> msg])
    /\ Handled("skipped")
    /\ UNCHANGED <<output_dir, all_videos, total_chunks>>

\* lines 75-78: the destination exists: skip the duplicate
SkipDuplicate ==
    /\ mpc = "videos"
    /\ video_dirs_left # <<>>
    /\ DestExists(Head(video_dirs_left))
    /\ Handled("skipped")
    /\ UNCHANGED <<output_dir, all_videos, total_chunks, errors>>

\* lines 80-98: copied, metadata.json read
CopyWithMetadata ==
    /\ mpc = "videos"
    /\ video_dirs_left # <<>>
    /\ ~DestExists(Head(video_dirs_left))
    /\ output_dir' = [output_dir EXCEPT ![Head(video_dirs_left)] =
                         [state |-> "complete", origin |-> bi]]
    /\ \E n \in 0..MaxChunks :
          /\ all_videos' = Append(all_videos, [video_id |-> Head(video_dirs_left),
                                               chunks |-> n])
          /\ total_chunks' = total_chunks + n
    /\ Handled("copied")
    /\ UNCHANGED errors

\* lines 80-86, 98: copied, no metadata.json in it
CopyWithoutMetadata ==
    /\ mpc = "videos"
    /\ video_dirs_left # <<>>
    /\ ~DestExists(Head(video_dirs_left))
    /\ output_dir' = [output_dir EXCEPT ![Head(video_dirs_left)] =
                         [state |-> "complete", origin |-> bi]]
    /\ Handled("copied")
    /\ UNCHANGED <<all_videos, total_chunks, errors>>

\* lines 80-88, 100-102: copied, then reading metadata.json raises
CopyThenMetadataError ==
    /\ mpc = "videos"
    /\ video_dirs_left # <<>>
    /\ ~DestExists(Head(video_dirs_left))
    /\ output_dir' = [output_dir EXCEPT ![Head(video_dirs_left)] =
                         [state |-> "complete", origin |-> bi]]
    /\ \E msg \in MetadataErrors :
          errors' = Append(errors, [video_id |-> Head(video_dirs_left), error |-> msg])
    /\ Handled("metadata_failed")
    /\ UNCHANGED <<all_videos, total_chunks>>

\* variant: a failed copy ends the loops
CopyFailsAborting ==
    /\ mpc = "videos"
    /\ video_dirs_left # <<>>
    /\ ~DestExists(Head(video_dirs_left))
    /\ \E msg \in CopyErrors :
          errors' = Append(errors, [video_id |-> Head(video_dirs_left), error |-> msg])
    /\ handled' = Append(handled, [batch |-> bi, video_id |-> Head(video_dirs_left),
                                   outcome |-> "copy_failed"])
    /\ video_dirs_left' = <<>>
    /\ bi' = Len(batch_dirs)
    /\ UNCHANGED <<batch_dirs, stats, mpc, output_dir, all_videos, total_chunks>>

\* lines 80-82, 100-102: copytree raises; it either had not created the
\* destination yet or leaves an incomplete one behind
CopyFails ==
    /\ mpc = "videos"
    /\ video_dirs_left # <<>>
    /\ ~DestExists(Head(video_dirs_left))
    /\ \/ UNCHANGED output_dir
       \/ output_dir' = [output_dir EXCEPT ![Head(video_dirs_left)] =
                            [state |-> "partial", origin |-> bi]]
    /\ \E msg \in CopyErrors :
          errors' = Append(errors, [video_id |-> Head(video_dirs_left), error |-> msg])
    /\ Handled("copy_failed")
    /\ UNCHANGED <<all_videos, total_chunks>>

\* lines 115-132: the statistics (the averages and the duration total left out)
Summary ==
    /\ mpc = "batches"
    /\ bi >= Len(batch_dirs)
    /\ stats' = [total_videos |-> Len(all_videos),
                 total_chunks |-> total_chunks,
                 errors |-> Len(errors)]
    /\ mpc' = "done"
    /\ UNCHANGED <<batch_dirs, output_dir, bi, video_dirs_left, all_videos, total_chunks,
                   errors, handled>>

NextMerge ==
    \/ EnterBatch /\ UNCHANGED <<chunkVars, dlVars, spVars>>
    \/ LeaveBatch /\ UNCHANGED <<chunkVars, dlVars, spVars>>
    \/ SkipDuplicate /\ UNCHANGED <<chunkVars, dlVars, spVars>>
    \/ CopyWithMetadata /\ UNCHANGED <<chunkVars, dlVars, spVars>>
    \/ CopyWithoutMetadata /\ UNCHANGED <<chunkVars, dlVars, spVars>>
    \/ CopyThenMetadataError /\ UNCHANGED <<chunkVars, dlVars, spVars>>
    \/ CopyFails /\ UNCHANGED <<chunkVars, dlVars, spVars>>
    \/ Summary /\ UNCHANGED <<chunkVars, dlVars, spVars>>

SpecMerge == InitMerge /\ [][NextMerge]_vars

\* ------------------------------------------------------------------ claims C9, C10

\* the batch directories that hold video v
BatchesWith(v) == {b \in 1..Len(batch_dirs) : v \in batch_dirs[b]}
FirstBatchWith(v) == CHOOSE b \in BatchesWith(v) : \A c \in BatchesWith(v) : b <= c

\* what the loop did with video v of batch b
OutcomeOf(b, v) ==
    LET k == CHOOSE j \in 1..Len(handled) : handled[j].batch = b /\ handled[j].video_id = v
    IN handled[k].outcome

Failed(outcome) == outcome \in {"copy_failed", "metadata_failed"}

\* the entries of errors / of handled that are about video v
ErrorsAbout(v) == {k \in 1..Len(errors) : errors[k].video_id = v}
FailuresAbout(v) ==
    {k \in 1..Len(handled) : handled[k].video_id = v /\ Failed(handled[k].outcome)}

\* v was in the output directory before the merge started
PreExisting(v) == output_dir[v].state = "complete" /\ output_dir[v].origin = 0

\* after the merge the output holds v as the complete copy from its first
\* batch directory and every later occurrence was skipped, no error recorded
FirstCopyKept(v) ==
    /\ output_dir[v] = [state |-> "complete", origin |-> FirstBatchWith(v)]
    /\ \A b \in BatchesWith(v) : b > FirstBatchWith(v) => OutcomeOf(b, v) = "skipped"
    /\ Cardinality(ErrorsAbout(v)) =
          IF Failed(OutcomeOf(FirstBatchWith(v), v)) THEN 1 ELSE 0

RECURSIVE VideosOfBatches(_)
\* every (batch, video) the batch directories 1..n hold, in loop order
VideosOfBatches(n) ==
    IF n = 0 THEN <<>>
    ELSE VideosOfBatches(n - 1) \o
         [k \in 1..Len(Listing(batch_dirs[n])) |->
             [batch |-> n, video_id |-> Listing(batch_dirs[n])[k]]]

\* the loop went through every video directory of every batch, in order
EveryVideoHandled ==
    /\ Len(handled) = Len(VideosOfBatches(Len(batch_dirs)))
    /\ \A k \in 1..Len(handled) :
          /\ handled[k].batch = VideosOfBatches(Len(batch_dirs))[k].batch
          /\ handled[k].video_id = VideosOfBatches(Len(batch_dirs))[k].video_id

CopyFailures == SelectSeq(handled, LAMBDA h : h.outcome = "copy_failed")
Failures == SelectSeq(handled, LAMBDA h : Failed(h.outcome))

\* C10 as stated: whatever copies fail, every video of every batch is still
\* processed, and the statistics' errors count is the number of failed copies.
C10_Original ==
    mpc = "done" =>
        /\ EveryVideoHandled
        /\ stats.errors = Len(CopyFailures)

\* C10 amended: whatever copies fail, every video of every batch is still
\* processed; errors holds, in order, one entry with the video id and the
\* error text for every video whose copy failed or whose metadata read after
\* the copy raised, and the statistics' errors count is the number of those.
C10_ErrorsRecorded ==
    mpc = "done" =>
        /\ EveryVideoHandled
        /\ Len(errors) = Len(Failures)
        /\ \A k \in 1..Len(errors) :
              /\ errors[k].video_id = Failures[k].video_id
              /\ Failures[k].outcome = "copy_failed" => errors[k].error \in CopyErrors
              /\ Failures[k].outcome = "metadata_failed" =>
                    errors[k].error \in MetadataErrors
        /\ stats.errors = Len(Failures)

C10_Witness ==
    /\ mpc = "done"
    /\ Len(handled) >= 3
    /\ handled[1].outcome = "copy_failed"
    /\ handled[2].batch = 1
    /\ handled[2].outcome = "copied"
    /\ handled[Len(handled)].batch = 2
    /\ handled[Len(handled)].outcome = "copied"
    /\ stats.errors = 1

\* ------------------------------------------------------------------ batch splitter

\* Series.unique(): the first occurrence of every value, in order of appearance
Unique(s) ==
    LET firsts == {k \in 1..Len(s) : \A j \in 1..(k - 1) : s[j] # s[k]}
    IN [n \in 1..Cardinality(firsts) |->
           s[CHOOSE k \in firsts : Cardinality({j \in firsts : j <= k}) = n]]

\* variant: the division rounded down
NumBatchesFloor(n, per) == n \div per
\* line 35: math.ceil(len(video_ids) / VIDEOS_PER_BATCH)
NumBatchesOf(n, per) == IF n % per = 0 THEN n \div per ELSE n \div per + 1

\* line 47: min((i + 1) * VIDEOS_PER_BATCH, len(video_ids))
EndIdx(k, per, n) == IF (k + 1) * per < n THEN (k + 1) * per ELSE n

\* lines 72-79
platforms ==
    << "Kaggle (Notebook 1)", "Google Colab (Account 1)", "GitHub Codespaces",
       "Google Colab (Account 2)", "Kaggle (Notebook 2)", "Any available platform" >>

\* the 120 ids of the scenario
ScenarioIds == [k \in 1..120 |-> k]

InitSplit ==
    /\ IdleChunker
    /\ IdleDownload
    /\ IdleMerge
    /\ \/ /\ \E n \in 0..MaxRawLen : id_column \in [1..n -> 1..MaxRawIds]
          /\ VIDEOS_PER_BATCH \in 1..MaxPerBatch
       \/ /\ id_column = ScenarioIds
          /\ VIDEOS_PER_BATCH = VIDEOS_PER_BATCH_DEFAULT
    /\ video_ids = <<>>
    /\ num_batches = 0
    /\ bidx = 0
    /\ batch_files = <<>>
    /\ batch_info = <<>>
    /\ spc = "load"

\* lines 24-36: the deduplicated id list and the number of batches
LoadIds ==
    /\ spc = "load"
    /\ video_ids' = Unique(id_column)
    /\ num_batches' = NumBatchesOf(Len(Unique(id_column)), VIDEOS_PER_BATCH)
    /\ bidx' = 0
    /\ batch_info' = <<>>
    /\ spc' = "batches"
    /\ UNCHANGED <<id_column, VIDEOS_PER_BATCH, batch_files>>

\* lines 45-66: one batch: slice, write bangla_batch_<i>.csv, note it
CreateBatch ==
    /\ spc = "batches"
    /\ bidx < num_batches
    /\ LET start_idx == bidx * VIDEOS_PER_BATCH
           end_idx == EndIdx(bidx, VIDEOS_PER_BATCH, Len(video_ids))
           batch_ids == Slice(video_ids, start_idx, end_idx)
       IN /\ batch_files' = Append(batch_files, batch_ids)
          /\ batch_info' = Append(batch_info,
                [Batch |-> bidx, Start |-> start_idx, End |-> end_idx - 1,
                 Count |-> Len(batch_ids), Platform |-> <<"Platform", bidx + 1>>])
    /\ bidx' = bidx + 1
    /\ UNCHANGED <<id_column, VIDEOS_PER_BATCH, video_ids, num_batches, spc>>

\* lines 45, 81-86: the loop is over; the platform labels are assigned
AssignPlatforms ==
    /\ spc = "batches"
    /\ bidx >= num_batches
    /\ batch_info' = [k \in 1..Len(batch_info) |->
                        [batch_info[k] EXCEPT !.Platform =
                            IF batch_info[k].Batch < Len(platforms)
                            THEN <<platforms[batch_info[k].Batch + 1]>>
                            ELSE <<"Platform", batch_info[k].Batch + 1>>]]
    /\ spc' = "done"
    /\ UNCHANGED <<id_column, VIDEOS_PER_BATCH, video_ids, num_batches, bidx, batch_files>>

NextSplit ==
    \/ LoadIds /\ UNCHANGED <<chunkVars, dlVars, mgVars>>
    \/ CreateBatch /\ UNCHANGED <<chunkVars, dlVars, mgVars>>
    \/ AssignPlatforms /\ UNCHANGED <<chunkVars, dlVars, mgVars>>

SpecSplit == InitSplit /\ [][NextSplit]_vars

\* ------------------------------------------------------------------ claim C11

RECURSIVE ConcatBatches(_)
\* the ids of batch files 1..k one after the other
ConcatBatches(k) == IF k = 0 THEN <<>> ELSE ConcatBatches(k - 1) \o batch_files[k]

\* how many times id v is listed in the batch files
TimesInBatches(v) ==
    Cardinality({<<b, j>> \in (1..Len(batch_files)) \X (1..Len(video_ids)) :
                    j <= Len(batch_files[b]) /\ batch_files[b][j] = v})

\* the ids of the CSV column
IdsOfColumn == {id_column[k] : k \in 1..Len(id_column)}

\* C11: the splitter writes ceil(len / batch size) batches (the least number
\* of batches of that size that can hold the list); batch k is the slice of
\* the deduplicated list that starts right after batch k-1, of exactly
\* VIDEOS_PER_BATCH ids except possibly the last, which is not empty; read one
\* after the other the batches are the list, and every id of the column is
\* in exactly one batch, once.  120 ids in batches of 50 give 50, 50, 20.
C11_BatchesPartition ==
    spc = "done" =>
        /\ Len(batch_files) * VIDEOS_PER_BATCH >= Len(video_ids)
        /\ (Len(batch_files) - 1) * VIDEOS_PER_BATCH < Len(video_ids)
        /\ Len(batch_files) = 0 <=> video_ids = <<>>
        /\ \A k \in 1..Len(batch_files) :
              /\ k < Len(batch_files) => Len(batch_files[k]) = VIDEOS_PER_BATCH
              /\ Len(batch_files[k]) >= 1
              /\ Len(batch_files[k]) <= VIDEOS_PER_BATCH
              /\ \A j \in 1..Len(batch_files[k]) :
                    batch_files[k][j] = video_ids[(k - 1) * VIDEOS_PER_BATCH + j]
              /\ batch_info[k].Count = Len(batch_files[k])
              /\ batch_info[k].Start = (k - 1) * VIDEOS_PER_BATCH
              /\ batch_info[k].End = batch_info[k].Start + Len(batch_files[k]) - 1
        /\ ConcatBatches(Len(batch_files)) = video_ids
        /\ \A v \in IdsOfColumn : TimesInBatches(v) = 1
        /\ (id_column = ScenarioIds /\ VIDEOS_PER_BATCH = 50) =>
              /\ Len(batch_files) = 3
              /\ Len(batch_files[1]) = 50
              /\ Len(batch_files[2]) = 50
              /\ Len(batch_files[3]) = 20

C11_Witness ==
    /\ spc = "done"
    /\ Len(id_column) > Len(video_ids)
    /\ Len(batch_files) >= 2
    /\ Len(batch_files[Len(batch_files)]) < VIDEOS_PER_BATCH

====
